---- MODULE Spec2Model ----
(***************************************************************************)
(* Model of the documentation guards of allisson/secrets:                  *)
(*   docs/tools/check_release_docs_links.py  (release docs guard)          *)
(*   docs/tools/check_release_image_tags.py  (release image tag check)     *)
(*                                                                         *)
(* Text is modelled as sequences of one-character strings.  A line of      *)
(* RELEASES.md is a record saying how the line departs from the heading    *)
(* form "## [X.Y.Z] - YYYY-MM-DD"; a file is a record with an exists flag. *)
(***************************************************************************)
EXTENDS Integers, Sequences, FiniteSets, TLC

VARIABLES
    \* ---- process environment and files (inputs, never written) ----
    event,            \* GITHUB_EVENT_NAME
    envBase,          \* PR_BASE_SHA   [set, value]
    envHead,          \* PR_HEAD_SHA   [set, value]
    baseDoc,          \* docs/releases/RELEASES.md at the base revision
    headDoc,          \* docs/releases/RELEASES.md in the working tree (head)
    metadata,         \* docs/metadata.json
    docsReadme,       \* docs/README.md
    runbookReadme,    \* docs/operations/runbooks/README.md
    compatMatrix,     \* the compatibility-matrix document
    \* ---- main() of check_release_docs_links.py ----
    pc,
    base_sha,
    head_sha,
    modified_files,
    new_versions,
    is_consolidation,
    idx,              \* position of the for loop in new_versions
    documented,       \* versions reported "properly documented"
    error,            \* the exception that ended the run
    output,           \* the last status line printed
    gitCalls,         \* number of git invocations (run)
    fileReads,        \* number of read_text calls
    \* ---- locals of get_releases_diff ----
    old_versions,
    diff_is_consolidation,
    diff_new_versions,
    added,
    \* ---- main() of check_release_image_tags.py ----
    tpc,
    current_release,
    fileIdx,
    files,
    errors

envVars  == <<event, envBase, envHead>>
fileVars == <<baseDoc, headDoc, metadata, docsReadme, runbookReadme, compatMatrix>>
mainVars == <<pc, base_sha, head_sha, modified_files, new_versions,
              is_consolidation, idx, documented, error, output, gitCalls,
              fileReads>>
diffVars == <<old_versions, diff_is_consolidation, diff_new_versions, added>>
tagVars  == <<tpc, current_release, fileIdx, files, errors>>
vars     == <<envVars, fileVars, mainVars, diffVars, tagVars>>

----------------------------------------------------------------------------
(* Bounds of the model *)

NumVersions == 5       \* size of the universe of version strings
MaxLeadingV == 2       \* most 'v' characters in front of current_release
MaxLines == 2          \* longest RELEASES.md of the text-level specification
NumFiles == 3          \* how many entries of files_to_check are iterated

----------------------------------------------------------------------------
(* Strings *)

Digits == {"0", "1", "2", "3", "4", "5", "6", "7", "8", "9"}

\* Code-point order of the characters that occur in the model.
CharOrder == <<" ", ".", "0", "1", "2", "3", "4", "5", "6", "7", "8", "9",
               "[", "]", "a", "v">>

Ord(c) == CHOOSE i \in 1..Len(CharOrder) : CharOrder[i] = c

RECURSIVE StrLess(_, _)
StrLess(a, b) ==
    IF a = <<>> THEN b # <<>>
    ELSE IF b = <<>> THEN FALSE
    ELSE IF a[1] = b[1] THEN StrLess(Tail(a), Tail(b))
    ELSE Ord(a[1]) < Ord(b[1])

ToSet(seq) == {seq[i] : i \in DOMAIN seq}

\* needle in content, for one piece of text
IsInfix(needle, s) ==
    \E i \in 0..(Len(s) - Len(needle)) :
        SubSeq(s, i + 1, i + Len(needle)) = needle

RECURSIVE lstrip(_, _)
lstrip(s, chars) ==
    IF s # <<>> /\ s[1] \in chars THEN lstrip(Tail(s), chars) ELSE s

RECURSIVE rstrip(_, _)
rstrip(s, chars) ==
    IF s # <<>> /\ s[Len(s)] \in chars
    THEN rstrip(SubSeq(s, 1, Len(s) - 1), chars) ELSE s

Whitespace == {" "}

strip(s) == rstrip(lstrip(s, Whitespace), Whitespace)

\* s with one leading copy of the character c removed, if it has one
RemoveOnePrefix(s, c) == IF s # <<>> /\ s[1] = c THEN Tail(s) ELSE s

SortedDescending(S) ==
    LET RECURSIVE build(_)
        build(T) == IF T = {} THEN <<>>
                    ELSE LET m == CHOOSE x \in T : \A y \in T \ {x} : StrLess(y, x)
                         IN <<m>> \o build(T \ {m})
    IN build(S)

\* sorted(...) of a set of strings
sorted(S) ==
    LET RECURSIVE build(_)
        build(T) == IF T = {} THEN <<>>
                    ELSE LET m == CHOOSE x \in T : \A y \in T \ {x} : StrLess(x, y)
                         IN <<m>> \o build(T \ {m})
    IN build(S)

----------------------------------------------------------------------------
(* Versions and documents *)

AllVersions == <<
    <<"1", ".", "0", ".", "0">>,
    <<"1", ".", "2", ".", "0">>,
    <<"9", ".", "0", ".", "0">>,
    <<"1", "0", ".", "0", ".", "0">>,
    <<"1", ".", "1", "0", ".", "0">>,
    <<"1", ".", "9", ".", "1">>,
    <<"2", ".", "0", ".", "0">> >>

Versions == {AllVersions[i] : i \in 1..NumVersions}

RELEASES_FILE == "docs/releases/RELEASES.md"
DOCS_README == "docs/README.md"
RUNBOOK_README == "docs/operations/runbooks/README.md"
\* the compatibility matrix of the get_releases_diff docstring; no code names its path
COMPAT_MATRIX == "compatibility matrix"

\* the two link texts main navigation must contain, as path pieces
RootLink == <<"releases/", "RELEASES.md">>
RelLink == <<"../", "../", "releases/", "RELEASES.md">>

Heading(v) ==
    [indent |-> FALSE, hashes |-> 2, ver |-> v, dated |-> TRUE, trailing |-> FALSE]

\* \d+\.\d+\.\d+ over the whole bracketed text
IsSemver(s) ==
    LET dots == {i \in 1..Len(s) : s[i] = "."}
    IN /\ Cardinality(dots) = 2
       /\ \A i \in (1..Len(s)) \ dots : s[i] \in Digits
       /\ 1 \notin dots
       /\ Len(s) \notin dots
       /\ \A i \in dots : i + 1 \notin dots

\* ^## \[(\d+\.\d+\.\d+)\] - \d{4}-\d{2}-\d{2}$ on one line
MatchesHeader(line) ==
    /\ ~line.indent
    /\ line.hashes = 2
    /\ IsSemver(line.ver)
    /\ line.dated
    /\ ~line.trailing

extract_version_headers(content) ==
    LET m == SelectSeq(content, MatchesHeader)
    IN [i \in 1..Len(m) |-> m[i].ver]

\* run(): the command's output with str.strip() applied, which removes the
\* whitespace before the first line's text and after the last line's text
run(out) ==
    [i \in 1..Len(out) |->
        [out[i] EXCEPT !.indent = IF i = 1 THEN FALSE ELSE @,
                       !.trailing = IF i = Len(out) THEN FALSE ELSE @]]

\* the characters of a line up to the closing bracket of the version
LineText(line) ==
    (IF line.indent THEN <<" ">> ELSE <<>>)
        \o [i \in 1..line.hashes |-> "#"] \o <<" ", "[">> \o line.ver \o <<"]">>

Bracketed(version) == <<"[">> \o version \o <<"]">>

NoFile == [exists |-> FALSE, text |-> <<>>]
File(t) == [exists |-> TRUE, text |-> t]

\* the pieces of text of a file, by path
TextOf(path) ==
    CASE path = RELEASES_FILE -> {LineText(headDoc.text[i]) : i \in DOMAIN headDoc.text}
      [] path = DOCS_README -> docsReadme.text
      [] path = RUNBOOK_README -> runbookReadme.text
      [] path = COMPAT_MATRIX -> compatMatrix.text

Exists(path) ==
    CASE path = RELEASES_FILE -> headDoc.exists
      [] path = DOCS_README -> docsReadme.exists
      [] path = RUNBOOK_README -> runbookReadme.exists
      [] path = COMPAT_MATRIX -> compatMatrix.exists

Contains(path, needle) == \E t \in TextOf(path) : IsInfix(needle, t)

NoError == [kind |-> "none", path |-> "", needle |-> <<>>]

\* os.getenv(name, default)
getenv(var, default) == IF var.set THEN var.value ELSE default

\* dict.get(key, default) on a JSON object kept as a set of <<key, value>>
get(json, key, default) ==
    IF \E kv \in json : kv[1] = key
    THEN (CHOOSE kv \in json : kv[1] = key)[2]
    ELSE default

----------------------------------------------------------------------------
(* get_releases_diff *)

ConsolidationThreshold == 3

\* lines 68-82 with the narrowing branch left out: always validate all
DetectConsolidationNoNarrowing(addedSet, introduced, meta) ==
    [versions |-> sorted(addedSet),
     flag |-> introduced /\ Cardinality(addedSet) > ConsolidationThreshold]

\* lines 68-82 with the flag taken from the missing base alone
DetectConsolidationFlagFromBase(addedSet, introduced, meta) ==
    IF introduced /\ Cardinality(addedSet) > ConsolidationThreshold
    THEN LET current == lstrip(get(meta.json, "current_release", <<>>), {"v"})
         IN IF meta.exists /\ current \in addedSet
            THEN [versions |-> <<current>>, flag |-> TRUE]
            ELSE [versions |-> sorted(addedSet), flag |-> TRUE]
    ELSE [versions |-> sorted(addedSet), flag |-> introduced]

\* lines 68-82 with the fallback narrowed to nothing
DetectConsolidationNoFallback(addedSet, introduced, meta) ==
    IF introduced /\ Cardinality(addedSet) > ConsolidationThreshold
    THEN LET current == lstrip(get(meta.json, "current_release", <<>>), {"v"})
         IN IF meta.exists /\ current \in addedSet
            THEN [versions |-> <<current>>, flag |-> TRUE]
            ELSE [versions |-> <<>>, flag |-> TRUE]
    ELSE [versions |-> sorted(addedSet), flag |-> FALSE]

\* lines 68-82: what get_releases_diff returns for the added set, the
\* "file missing in base" flag and docs/metadata.json
DetectConsolidation(addedSet, introduced, meta) ==
    IF introduced /\ Cardinality(addedSet) > ConsolidationThreshold
    THEN LET current == lstrip(get(meta.json, "current_release", <<>>), {"v"})
         IN IF meta.exists /\ current \in addedSet
            THEN [versions |-> <<current>>, flag |-> TRUE]
            ELSE [versions |-> sorted(addedSet), flag |-> TRUE]
    ELSE [versions |-> sorted(addedSet), flag |-> FALSE]

\* the try block with the except clause missing: the failure propagates
GitShowBaseRaises ==
    /\ pc = "diff_show"
    /\ gitCalls' = gitCalls + 1
    /\ IF baseDoc.exists
       THEN /\ old_versions' = ToSet(extract_version_headers(run(baseDoc.text)))
            /\ diff_is_consolidation' = FALSE
            /\ pc' = "diff_read"
            /\ error' = error
       ELSE /\ UNCHANGED <<old_versions, diff_is_consolidation>>
            /\ pc' = "failed"
            /\ error' = [kind |-> "git", path |-> RELEASES_FILE, needle |-> <<>>]
    /\ UNCHANGED <<envVars, fileVars, tagVars, base_sha, head_sha,
                   modified_files, new_versions, is_consolidation, idx,
                   documented, output, fileReads, diff_new_versions,
                   added>>

\* lines 51-59: git show base:docs/releases/RELEASES.md
GitShowBase ==
    /\ pc = "diff_show"
    /\ gitCalls' = gitCalls + 1
    /\ IF baseDoc.exists
       THEN /\ old_versions' = ToSet(extract_version_headers(run(baseDoc.text)))
            /\ diff_is_consolidation' = FALSE
       ELSE /\ old_versions' = {}
            /\ diff_is_consolidation' = TRUE
    /\ pc' = "diff_read"
    /\ UNCHANGED <<envVars, fileVars, tagVars, base_sha, head_sha,
                   modified_files, new_versions, is_consolidation, idx,
                   documented, error, output, fileReads, diff_new_versions,
                   added>>

\* lines 61-66: read the working-tree RELEASES.md and take the difference
ReadHead ==
    /\ pc = "diff_read"
    /\ IF headDoc.exists
       THEN /\ fileReads' = fileReads + 1
            /\ diff_new_versions' = ToSet(extract_version_headers(headDoc.text))
            /\ added' = diff_new_versions' \ old_versions
            /\ pc' = "diff_decide"
            /\ error' = error
       ELSE /\ pc' = "failed"
            /\ error' = [kind |-> "missing_file", path |-> RELEASES_FILE,
                         needle |-> <<>>]
            /\ UNCHANGED <<fileReads, diff_new_versions, added>>
    /\ UNCHANGED <<envVars, fileVars, tagVars, base_sha, head_sha,
                   modified_files, new_versions, is_consolidation, idx,
                   documented, output, gitCalls, old_versions,
                   diff_is_consolidation>>

\* lines 68-82 and the assignment of the returned pair at line 123
Decide ==
    /\ pc = "diff_decide"
    /\ LET r == DetectConsolidation(added, diff_is_consolidation, metadata)
           consolidating == diff_is_consolidation
                              /\ Cardinality(added) > ConsolidationThreshold
       IN /\ new_versions' = r.versions
          /\ is_consolidation' = r.flag
          /\ fileReads' = fileReads
                             + (IF consolidating /\ metadata.exists THEN 1 ELSE 0)
    /\ pc' = "diffed"
    /\ UNCHANGED <<envVars, fileVars, tagVars, base_sha, head_sha,
                   modified_files, idx, documented, error, output, gitCalls,
                   diffVars>>

----------------------------------------------------------------------------
(* require_contains, validate_release_in_consolidated *)

\* lines 85-89: the exception require_contains raises, NoError if none
require_contains(path, needle) ==
    IF ~Exists(path)
    THEN [kind |-> "missing_file", path |-> path, needle |-> <<>>]
    ELSE IF ~Contains(path, needle)
    THEN [kind |-> "missing_reference", path |-> path, needle |-> needle]
    ELSE NoError

\* lines 94-101: the require_contains calls, in order
RequiredChecks(version) ==
    << [path |-> RELEASES_FILE, needle |-> Bracketed(version)],
       [path |-> DOCS_README, needle |-> RootLink],
       [path |-> RUNBOOK_README, needle |-> RelLink] >>

\* lines 92-101: the first exception raised, NoError if every check passes
validate_release_in_consolidated(version) ==
    LET checks == RequiredChecks(version)
        failing == {i \in DOMAIN checks :
                       require_contains(checks[i].path, checks[i].needle) # NoError}
    IN IF failing = {} THEN NoError
       ELSE LET first == CHOOSE i \in failing : \A j \in failing : i <= j
            IN require_contains(checks[first].path, checks[first].needle)

\* read_text calls made by validate_release_in_consolidated(version)
ReadsOf(version) ==
    LET checks == RequiredChecks(version)
        failing == {i \in DOMAIN checks :
                       require_contains(checks[i].path, checks[i].needle) # NoError}
    IN IF failing = {} THEN Len(checks)
       ELSE LET first == CHOOSE i \in failing : \A j \in failing : i <= j
            IN IF Exists(checks[first].path) THEN first ELSE first - 1

----------------------------------------------------------------------------
(* main of check_release_docs_links.py *)

\* lines 105-107 with the skip also requiring the revision identifiers unset
CheckEventNeedsNoShas ==
    /\ pc = "start"
    /\ IF event # "pull_request" /\ ~envBase.set /\ ~envHead.set
       THEN /\ pc' = "skipped"
            /\ output' = "release docs guard skipped (non-PR)"
       ELSE /\ pc' = "env"
            /\ output' = output
    /\ UNCHANGED <<envVars, fileVars, tagVars, diffVars, base_sha, head_sha,
                   modified_files, new_versions, is_consolidation, idx,
                   documented, error, gitCalls, fileReads>>

\* lines 105-107
CheckEvent ==
    /\ pc = "start"
    /\ IF event # "pull_request"
       THEN /\ pc' = "skipped"
            /\ output' = "release docs guard skipped (non-PR)"
       ELSE /\ pc' = "env"
            /\ output' = output
    /\ UNCHANGED <<envVars, fileVars, tagVars, diffVars, base_sha, head_sha,
                   modified_files, new_versions, is_consolidation, idx,
                   documented, error, gitCalls, fileReads>>

ConfigError == [kind |-> "config", path |-> "", needle |-> <<>>]

\* lines 109-114 without the .strip() calls
CheckShasNoStrip ==
    /\ pc = "env"
    /\ base_sha' = getenv(envBase, <<>>)
    /\ head_sha' = getenv(envHead, <<>>)
    /\ IF base_sha' = <<>> \/ head_sha' = <<>>
       THEN /\ pc' = "failed"
            /\ error' = ConfigError
       ELSE /\ pc' = "modified"
            /\ error' = error
    /\ UNCHANGED <<envVars, fileVars, tagVars, diffVars, modified_files,
                   new_versions, is_consolidation, idx, documented, output,
                   gitCalls, fileReads>>

\* lines 109-114
CheckShas ==
    /\ pc = "env"
    /\ base_sha' = strip(getenv(envBase, <<>>))
    /\ head_sha' = strip(getenv(envHead, <<>>))
    /\ IF base_sha' = <<>> \/ head_sha' = <<>>
       THEN /\ pc' = "failed"
            /\ error' = ConfigError
       ELSE /\ pc' = "modified"
            /\ error' = error
    /\ UNCHANGED <<envVars, fileVars, tagVars, diffVars, modified_files,
                   new_versions, is_consolidation, idx, documented, output,
                   gitCalls, fileReads>>

\* lines 26-31 and 116-120: git diff --name-only lists RELEASES.md exactly
\* when its base and head contents differ; other files may be listed too
GetModifiedFiles ==
    /\ pc = "modified"
    /\ gitCalls' = gitCalls + 1
    /\ \E others \in SUBSET {DOCS_README} :
           modified_files' =
               (IF baseDoc # headDoc THEN {RELEASES_FILE} ELSE {}) \cup others
    /\ IF RELEASES_FILE \notin modified_files'
       THEN /\ pc' = "no_change"
            /\ output' = "release docs guard passed (RELEASES.md not modified)"
       ELSE /\ pc' = "diff_show"
            /\ output' = output
    /\ UNCHANGED <<envVars, fileVars, tagVars, diffVars, base_sha, head_sha,
                   new_versions, is_consolidation, idx, documented, error,
                   fileReads>>

\* lines 124-133
CheckNewVersions ==
    /\ pc = "diffed"
    /\ IF new_versions = <<>>
       THEN /\ pc' = "no_new"
            /\ output' = "release docs guard passed (no new release entries detected)"
            /\ idx' = idx
       ELSE /\ pc' = "validating"
            /\ output' = IF is_consolidation
                         THEN "Detected consolidation migration, validating current release only"
                         ELSE "Detected new release(s)"
            /\ idx' = 1
    /\ UNCHANGED <<envVars, fileVars, tagVars, diffVars, base_sha, head_sha,
                   modified_files, new_versions, is_consolidation, documented,
                   error, gitCalls, fileReads>>

\* lines 136-138 with the exception swallowed: the loop goes on
ValidateVersionKeepsGoing ==
    /\ pc = "validating"
    /\ idx <= Len(new_versions)
    /\ LET version == new_versions[idx]
           raised == validate_release_in_consolidated(version)
       IN /\ fileReads' = fileReads + ReadsOf(version)
          /\ idx' = idx + 1
          /\ IF raised = NoError
             THEN /\ documented' = Append(documented, version)
                  /\ output' = "properly documented"
                  /\ error' = error
             ELSE /\ error' = raised
                  /\ UNCHANGED <<documented, output>>
          /\ pc' = pc
    /\ UNCHANGED <<envVars, fileVars, tagVars, diffVars, base_sha, head_sha,
                   modified_files, new_versions, is_consolidation, gitCalls>>

\* lines 136-138: one iteration of the for loop
ValidateVersion ==
    /\ pc = "validating"
    /\ idx <= Len(new_versions)
    /\ LET version == new_versions[idx]
           raised == validate_release_in_consolidated(version)
       IN /\ fileReads' = fileReads + ReadsOf(version)
          /\ IF raised = NoError
             THEN /\ documented' = Append(documented, version)
                  /\ output' = "properly documented"
                  /\ idx' = idx + 1
                  /\ UNCHANGED <<pc, error>>
             ELSE /\ pc' = "failed"
                  /\ error' = raised
                  /\ UNCHANGED <<documented, output, idx>>
    /\ UNCHANGED <<envVars, fileVars, tagVars, diffVars, base_sha, head_sha,
                   modified_files, new_versions, is_consolidation, gitCalls>>

\* line 140
Finish ==
    /\ pc = "validating"
    /\ idx > Len(new_versions)
    /\ pc' = "passed"
    /\ output' = "release docs guard passed"
    /\ UNCHANGED <<envVars, fileVars, tagVars, diffVars, base_sha, head_sha,
                   modified_files, new_versions, is_consolidation, idx,
                   documented, error, gitCalls, fileReads>>

----------------------------------------------------------------------------
(* Inputs *)

Events == {"pull_request", "push"}

EnvValues ==
    { [set |-> FALSE, value |-> <<>>],
      [set |-> TRUE, value |-> <<>>],
      [set |-> TRUE, value |-> <<" ">>],
      [set |-> TRUE, value |-> <<" ", "a", " ">>] }

HeadingsOf(vs) == [i \in 1..Len(vs) |-> Heading(vs[i])]

\* RELEASES.md holding the first k versions of the universe
PrefixDoc(k) == File(HeadingsOf(SubSeq(AllVersions, 1, k)))

PrefixDocs == {NoFile} \cup {PrefixDoc(k) : k \in 0..NumVersions}

\* RELEASES.md holding a subset of the universe, oldest or newest first
AscendingDocs == {File(HeadingsOf(sorted(S))) : S \in SUBSET Versions}
DescendingDocs == {File(HeadingsOf(SortedDescending(S))) : S \in SUBSET Versions}

NoMetadata == [exists |-> FALSE, json |-> {}]
Metadata(json) == [exists |-> TRUE, json |-> json]

LeadingVs(k) == [i \in 1..k |-> "v"]

AllMetadata ==
    {NoMetadata, Metadata({})}
        \cup {Metadata({<<"current_release", LeadingVs(k) \o v>>}) :
                 k \in 0..MaxLeadingV, v \in Versions}

FewMetadata ==
    {NoMetadata,
     Metadata({<<"current_release", <<"v">> \o AllVersions[2]>>}),
     Metadata({<<"current_release", <<"v">> \o AllVersions[NumVersions + 1]>>})}

NoNav == [exists |-> FALSE, text |-> {}]
NavFiles == {NoNav} \cup {[exists |-> TRUE, text |-> t] : t \in {{}, {RootLink}, {RelLink}}}

CompatFiles ==
    {[exists |-> TRUE, text |-> t] : t \in {{}, Versions \ {AllVersions[1]}, Versions}}

InitMainVars ==
    /\ pc = "start"
    /\ base_sha = <<>>
    /\ head_sha = <<>>
    /\ modified_files = {}
    /\ new_versions = <<>>
    /\ is_consolidation = FALSE
    /\ idx = 0
    /\ documented = <<>>
    /\ error = NoError
    /\ output = ""
    /\ gitCalls = 0
    /\ fileReads = 0

InitDiffVars ==
    /\ old_versions = {}
    /\ diff_is_consolidation = FALSE
    /\ diff_new_versions = {}
    /\ added = {}

InitTagVarsIdle ==
    /\ tpc = "idle"
    /\ current_release = <<>>
    /\ fileIdx = 0
    /\ files = <<>>
    /\ errors = <<>>

\* the release docs guard, started in any environment
Init ==
    /\ event \in Events
    /\ envBase \in EnvValues
    /\ envHead \in EnvValues
    /\ baseDoc \in PrefixDocs
    /\ headDoc \in PrefixDocs
    /\ metadata \in FewMetadata
    /\ docsReadme \in NavFiles
    /\ runbookReadme \in NavFiles
    /\ compatMatrix \in CompatFiles
    /\ InitMainVars
    /\ InitDiffVars
    /\ InitTagVarsIdle

Next ==
    \/ CheckEvent
    \/ CheckShas
    \/ GetModifiedFiles
    \/ GitShowBase
    \/ ReadHead
    \/ Decide
    \/ CheckNewVersions
    \/ ValidateVersion
    \/ Finish

Spec == Init /\ [][Next]_vars

\* the state in which main calls get_releases_diff at line 123
InitDiffCall ==
    /\ event = "pull_request"
    /\ envBase = [set |-> TRUE, value |-> <<"a">>]
    /\ envHead = [set |-> TRUE, value |-> <<"a">>]
    /\ docsReadme = [exists |-> TRUE, text |-> {RootLink}]
    /\ runbookReadme = [exists |-> TRUE, text |-> {RelLink}]
    /\ compatMatrix = [exists |-> TRUE, text |-> Versions]
    /\ pc = "diff_show"
    /\ base_sha = <<"a">>
    /\ head_sha = <<"a">>
    /\ modified_files = {RELEASES_FILE}
    /\ new_versions = <<>>
    /\ is_consolidation = FALSE
    /\ idx = 0
    /\ documented = <<>>
    /\ error = NoError
    /\ output = ""
    /\ gitCalls = 1
    /\ fileReads = 0
    /\ InitDiffVars
    /\ InitTagVarsIdle

\* get_releases_diff over changed documents of well-formed headings
InitDiff ==
    /\ baseDoc \in {NoFile} \cup AscendingDocs
    /\ headDoc \in AscendingDocs \cup DescendingDocs
    /\ baseDoc # headDoc
    /\ metadata \in AllMetadata
    /\ InitDiffCall

NextDiff ==
    \/ GitShowBase
    \/ ReadHead
    \/ Decide

SpecDiff == InitDiff /\ [][NextDiff]_vars

\* lines of RELEASES.md that are headings or near misses of a heading
TextVersions == {AllVersions[1], AllVersions[2]}

TextLines ==
    {Heading(v) : v \in TextVersions \cup {<<"1", ".", "2">>}}
        \cup {[Heading(v) EXCEPT !.indent = TRUE] : v \in TextVersions}
        \cup {[Heading(v) EXCEPT !.trailing = TRUE] : v \in TextVersions}
        \cup {[Heading(v) EXCEPT !.hashes = 3] : v \in TextVersions}
        \cup {[Heading(v) EXCEPT !.dated = FALSE] : v \in TextVersions}

TextDocs ==
    {File(t) : t \in UNION {[1..n -> TextLines] : n \in 0..MaxLines}}

\* get_releases_diff over arbitrary short changed documents
InitText ==
    /\ baseDoc \in {NoFile} \cup TextDocs
    /\ headDoc \in {NoFile} \cup TextDocs
    /\ baseDoc # headDoc
    /\ metadata = NoMetadata
    /\ InitDiffCall

SpecText == InitText /\ [][NextDiff]_vars

----------------------------------------------------------------------------
(* check_release_image_tags.py *)

\* An image reference is kept as the text that follows "allisson/secrets".
Latest == <<":", "l", "a", "t", "e", "s", "t">>

\* PINNED_IMAGE_PATTERN: allisson/secrets:v\d+\.\d+\.\d+
IsPinned(ref) ==
    /\ Len(ref) > 2
    /\ ref[1] = ":"
    /\ ref[2] = "v"
    /\ IsSemver(SubSeq(ref, 3, Len(ref)))

\* UNPINNED_IMAGE_PATTERN: allisson/secrets(?::latest)?(?!\:v)
IsUnpinned(ref) == ~(Len(ref) >= 2 /\ ref[1] = ":" /\ ref[2] = "v")

files_to_check ==
    << "README.md",
       "docs/getting-started/docker.md",
       "docs/operations/deployment/production-rollout.md",
       "docs/cli-commands.md",
       "docs/configuration.md",
       "docs/operations/kms/key-management.md",
       "docs/operations/kms/setup.md" >>

\* lines 36-55: the error a file contributes, "" if none
FileError(file, current_tag) ==
    LET pinned_tags == {r \in file.text : IsPinned(r)}
        unpinned_refs == {r \in file.text : IsUnpinned(r)}
        has_current_pinned == current_tag \in pinned_tags
        has_unpinned == unpinned_refs # {}
        has_old_pinned == \E tag \in pinned_tags : tag # current_tag
    IN IF has_old_pinned THEN "outdated pinned tags"
       ELSE IF ~has_current_pinned /\ ~has_unpinned THEN "must include either"
       ELSE ""

\* lines 14-16 and 28
LoadMetadata ==
    /\ tpc = "start"
    /\ current_release' = get(metadata.json, "current_release", <<>>)
    /\ errors' = <<>>
    /\ fileIdx' = 1
    /\ tpc' = "loop"
    /\ UNCHANGED <<envVars, fileVars, mainVars, diffVars, files>>

\* lines 30-55: one iteration of the loop over files_to_check
CheckFile ==
    /\ tpc = "loop"
    /\ fileIdx <= NumFiles
    /\ LET file == files[fileIdx]
           current_tag == <<":">> \o current_release
           msg == IF ~file.exists THEN "missing required docs file"
                  ELSE FileError(file, current_tag)
       IN errors' = IF msg = "" THEN errors
                    ELSE Append(errors, [path |-> files_to_check[fileIdx], msg |-> msg])
    /\ fileIdx' = fileIdx + 1
    /\ UNCHANGED <<envVars, fileVars, mainVars, diffVars, tpc, current_release, files>>

\* lines 57-62
Report ==
    /\ tpc = "loop"
    /\ fileIdx > NumFiles
    /\ tpc' = IF errors # <<>> THEN "failed" ELSE "passed"
    /\ UNCHANGED <<envVars, fileVars, mainVars, diffVars, current_release, fileIdx,
                   files, errors>>

TagRefs == {Latest, <<":", "v">> \o AllVersions[1], <<":", "v">> \o AllVersions[2]}

TagFiles == {NoNav} \cup {[exists |-> TRUE, text |-> t] : t \in SUBSET TagRefs}

TagReleases == {<<"v">> \o AllVersions[1], <<"v">> \o AllVersions[2], AllVersions[1]}

\* the image tag check, started on any contents of the checked files
InitTags ==
    /\ event = "push"
    /\ envBase = [set |-> FALSE, value |-> <<>>]
    /\ envHead = [set |-> FALSE, value |-> <<>>]
    /\ baseDoc = NoFile
    /\ headDoc = NoFile
    /\ metadata \in {Metadata({<<"current_release", r>>}) : r \in TagReleases}
    /\ docsReadme = NoNav
    /\ runbookReadme = NoNav
    /\ compatMatrix = NoNav
    /\ InitMainVars
    /\ InitDiffVars
    /\ tpc = "start"
    /\ current_release = <<>>
    /\ fileIdx = 0
    /\ files \in [1..NumFiles -> TagFiles]
    /\ errors = <<>>

NextTags ==
    \/ LoadMetadata
    \/ CheckFile
    \/ Report

SpecTags == InitTags /\ [][NextTags]_vars

----------------------------------------------------------------------------
(* Properties *)

\* the versions of the lines of a document that have the heading form
VersionHeadings(doc) ==
    {doc.text[i].ver : i \in {j \in DOMAIN doc.text : MatchesHeader(doc.text[j])}}

CurrentReleaseText == get(metadata.json, "current_release", <<>>)

IsAscending(seq) ==
    \A i, j \in DOMAIN seq : i < j => StrLess(seq[i], seq[j])

\* every reference the guard requires for a version is present
AllReferencesPresent(version) ==
    /\ headDoc.exists
    /\ \E i \in DOMAIN headDoc.text : IsInfix(Bracketed(version), LineText(headDoc.text[i]))
    /\ docsReadme.exists
    /\ \E t \in docsReadme.text : IsInfix(RootLink, t)
    /\ runbookReadme.exists
    /\ \E t \in runbookReadme.text : IsInfix(RelLink, t)

\* an environment identifier that is unset, empty or only whitespace
Missing(var) ==
    ~var.set \/ \A i \in DOMAIN var.value : var.value[i] = " "

\* C1: a run whose validation set holds a version that the compatibility
\* matrix does not contain never ends PASSED.
C1_CompatMatrixRequired ==
    pc = "passed" =>
        \A i \in DOMAIN new_versions :
            /\ compatMatrix.exists
            /\ \E t \in compatMatrix.text : IsInfix(new_versions[i], t)

C3_ConsolidationNarrowing ==
    (/\ pc = "diffed"
     /\ ~baseDoc.exists
     /\ Cardinality(added) > 3
     /\ metadata.exists
     /\ RemoveOnePrefix(CurrentReleaseText, "v") \in added)
        => /\ new_versions = <<RemoveOnePrefix(CurrentReleaseText, "v")>>
           /\ is_consolidation = TRUE

C3_NarrowedWitness ==
    /\ pc = "diffed"
    /\ ~baseDoc.exists
    /\ Cardinality(added) > 3
    /\ metadata.exists
    /\ CurrentReleaseText # RemoveOnePrefix(CurrentReleaseText, "v")
    /\ RemoveOnePrefix(CurrentReleaseText, "v") \in added
    /\ Len(new_versions) = 1

\* C4 as stated: when the base revision lacked RELEASES.md, more than 3
\* versions are added and the current release of the metadata is not among
\* the added versions (or the metadata file is absent or has no
\* current_release), get_releases_diff returns all added versions sorted
\* ascending with the consolidation flag true.
C4_FallbackAsStated ==
    (/\ pc = "diffed"
     /\ ~baseDoc.exists
     /\ Cardinality(added) > 3
     /\ \/ ~metadata.exists
        \/ \A kv \in metadata.json : kv[1] # "current_release"
        \/ CurrentReleaseText \notin added)
        => /\ ToSet(new_versions) = added
           /\ Len(new_versions) = Cardinality(added)
           /\ IsAscending(new_versions)
           /\ is_consolidation = TRUE

\* C4 amended: when the base revision lacked RELEASES.md, more than 3
\* versions are added and the current release of the metadata, with every
\* leading "v" removed, is not among the added versions (or the metadata
\* file is absent or has no current_release), get_releases_diff returns all
\* added versions sorted ascending with the consolidation flag true.
C4_ConsolidationFallback ==
    (/\ pc = "diffed"
     /\ ~baseDoc.exists
     /\ Cardinality(added) > 3
     /\ \/ ~metadata.exists
        \/ \A kv \in metadata.json : kv[1] # "current_release"
        \/ \A v \in added :
               \E k \in 0..Len(CurrentReleaseText) :
                   /\ \A i \in 1..k : CurrentReleaseText[i] = "v"
                   /\ (k < Len(CurrentReleaseText) => CurrentReleaseText[k + 1] # "v")
                   /\ SubSeq(CurrentReleaseText, k + 1, Len(CurrentReleaseText)) # v)
        => /\ ToSet(new_versions) = added
           /\ Len(new_versions) = Cardinality(added)
           /\ IsAscending(new_versions)
           /\ is_consolidation = TRUE

C4_FallbackWitness ==
    /\ pc = "diffed"
    /\ ~baseDoc.exists
    /\ Cardinality(added) > 3
    /\ metadata.exists
    /\ CurrentReleaseText \in Versions \ added
    /\ Len(new_versions) = Cardinality(added)

\* C5: when RELEASES.md existed at the base revision, or is new with at most
\* 3 added versions, get_releases_diff returns every added version exactly
\* once, sorted ascending, with the consolidation flag false; the flag is
\* true exactly when the base lacked the document and more than 3 versions
\* were added.
C5_NonConsolidation ==
    pc = "diffed" =>
        /\ (baseDoc.exists \/ Cardinality(added) <= 3) =>
               /\ ToSet(new_versions) = added
               /\ Len(new_versions) = Cardinality(added)
               /\ IsAscending(new_versions)
               /\ is_consolidation = FALSE
        /\ is_consolidation <=> (~baseDoc.exists /\ Cardinality(added) > 3)

C5_IncrementalWitness ==
    /\ pc = "diffed"
    /\ ~baseDoc.exists
    /\ Cardinality(added) = 3
    /\ Len(new_versions) = 3
    /\ ~is_consolidation

\* C6: the added set is exactly the versions of the heading lines of the
\* head snapshot minus the versions of the heading lines of the base
\* snapshot.
C6_AddedIsHeadMinusBase ==
    pc \in {"diff_decide", "diffed"} =>
        added = VersionHeadings(headDoc) \ VersionHeadings(baseDoc)

\* C7: when RELEASES.md is absent at the base revision, get_releases_diff
\* raises nothing: the base version set is empty, the "just introduced" flag
\* is true and every version of the head document counts as added.
C7_AbsentBaseIsIntroduction ==
    ~baseDoc.exists =>
        /\ pc # "failed"
        /\ error = NoError
        /\ pc \in {"diff_read", "diff_decide", "diffed"} =>
               /\ old_versions = {}
               /\ diff_is_consolidation = TRUE
        /\ pc \in {"diff_decide", "diffed"} => added = VersionHeadings(headDoc)

C7_IntroducedWitness ==
    /\ ~baseDoc.exists
    /\ pc = "diffed"
    /\ Cardinality(added) >= 2

\* C8: outside a pull request the run prints the skip status and stops
\* there, with no git call, no file read and no version validated, whatever
\* the revision identifiers are.
C8_SkippedIsTerminal ==
    event # "pull_request" =>
        /\ pc \in {"start", "skipped"}
        /\ gitCalls = 0
        /\ fileReads = 0
        /\ documented = <<>>
        /\ error = NoError
        /\ pc = "skipped" =>
               /\ output = "release docs guard skipped (non-PR)"
               /\ ~ENABLED Next

C8_SkippedWithShasWitness ==
    /\ pc = "skipped"
    /\ ~Missing(envBase)
    /\ ~Missing(envHead)

\* C9: in a pull request with the base or the head revision identifier
\* unset, empty or only whitespace, the run fails with the configuration
\* error before any git call or file read, and never reaches NO_CHANGE,
\* VALIDATING or PASSED.
C9_MissingShaIsFatal ==
    (event = "pull_request" /\ (Missing(envBase) \/ Missing(envHead))) =>
        /\ pc \in {"start", "env", "failed"}
        /\ pc = "failed" => error = ConfigError
        /\ gitCalls = 0
        /\ fileReads = 0

C9_WhitespaceShaWitness ==
    /\ pc = "failed"
    /\ error = ConfigError
    /\ envBase.set
    /\ envBase.value = <<" ">>
    /\ ~Missing(envHead)

\* C10: once every file is checked, a file contributes an error exactly
\* when it is missing, holds a pinned tag other than the current one, holds
\* both the current pinned tag and an unpinned reference, or holds neither;
\* the run fails exactly when some file contributes an error.
C10_PinnedOrUnpinnedNotBoth ==
    tpc \in {"passed", "failed"} =>
        /\ \A i \in 1..NumFiles :
               LET refs == files[i].text
                   current == <<":">> \o current_release
                   hasCurrent == current \in refs /\ IsPinned(current)
                   hasOld == \E r \in refs : IsPinned(r) /\ r # current
                   hasUnpinned == \E r \in refs : IsUnpinned(r)
               IN (\E k \in DOMAIN errors : errors[k].path = files_to_check[i])
                      <=> \/ ~files[i].exists
                          \/ hasOld
                          \/ hasCurrent /\ hasUnpinned
                          \/ ~hasCurrent /\ ~hasUnpinned
        /\ tpc = "failed" <=> errors # <<>>

====
